---------------------------- MODULE Spec2Model ----------------------------
(***************************************************************************)
(* Presence Simulator integration (homeassistant/components/               *)
(* presence_simulator): the context-identifier scheme, the configuration   *)
(* resolution of validate(), and the life cycle of the PresenceSimulator   *)
(* switch entity.                                                          *)
(*                                                                         *)
(* Representation of Python values                                         *)
(*   str      a sequence of one-character strings, <<"a", "b">>            *)
(*   bytes    a sequence of numbers 0..255                                 *)
(*   int      a record [neg |-> BOOLEAN, mag |-> limbs]: sign and          *)
(*            magnitude, the magnitude little-endian in base 2^16 with no  *)
(*            leading zero limb (zero is the empty sequence).  Python ints *)
(*            are unbounded and the identifiers need 48 and 64 bit values, *)
(*            which the 32-bit integers of TLC cannot hold.                *)
(*   None     the record NoneVal                                           *)
(***************************************************************************)
EXTENDS Integers, Sequences, FiniteSets, TLC

VARIABLES
    hashfn,            \* hash() of this process run, per non-empty name
    ctx,               \* the last Context a create_context call returned
    verdict,           \* the last is_our_context call: argument and answer
    heap,              \* the mutable objects, by address: the default
                       \* lists, VALIDATION_TUPLES, entry.options,
                       \* entry.data and every dict and list made since
    entry,             \* the ConfigEntry as read off the heap: the
                       \* contents of entry.options and entry.data
    validation_tuples, \* VALIDATION_TUPLES as read off the heap
    resolved,          \* what the last validate(entry) call produced, as
                       \* read off the heap
    ncalls,            \* number of calls of the operation under study
    _name,             \* PresenceSimulator._name
    _state,            \* PresenceSimulator._state
    remove_listeners,  \* PresenceSimulator.remove_listeners
    _context_cnt,      \* PresenceSimulator._context_cnt
    is_running,        \* hass.is_running
    started_listener,  \* listen_once(EVENT_HOMEASSISTANT_STARTED) registered
    phase,             \* entity life cycle position (adding: at the await)
    error,             \* exception raised by the last entity operation
    invoked,           \* listener handles invoked so far, in order
    last_call,         \* which of async_turn_on, async_turn_off ran last
    nswitch            \* the host's direct calls of the two so far

ctxVars == <<hashfn, ctx, verdict>>
cfgVars == <<heap, entry, validation_tuples, resolved>>
entVars == <<_name, _state, remove_listeners, _context_cnt, is_running,
             started_listener, phase, error, invoked, last_call, nswitch>>
vars == <<hashfn, ctx, verdict, heap, entry, validation_tuples, resolved, ncalls,
          _name, _state, remove_listeners, _context_cnt, is_running,
          started_listener, phase, error, invoked, last_call, nswitch>>

NoneVal == [t |-> "None"]

-----------------------------------------------------------------------------
(* Python str helpers *)

RECURSIVE Repeat(_, _)
Repeat(c, n) == IF n = 0 THEN <<>> ELSE <<c>> \o Repeat(c, n - 1)

\* s[:n]
Prefix(s, n) == SubSeq(s, 1, IF Len(s) < n THEN Len(s) ELSE n)

\* s.startswith(p)
StartsWith(s, p) == Len(s) >= Len(p) /\ SubSeq(s, 1, Len(p)) = p

-----------------------------------------------------------------------------
(* Python int: sign and base-2^16 magnitude *)

Limb == 256 * 256

PyInt(neg, mag) == [neg |-> neg, mag |-> mag]
PyZero == PyInt(FALSE, <<>>)

\* number of bits of a limb 0..65535
RECURSIVE BitLen(_)
BitLen(x) == IF x = 0 THEN 0 ELSE 1 + BitLen(x \div 2)

\* int.bit_length(): the bits of the magnitude, 0 for 0
bit_length(i) ==
    IF i.mag = <<>> THEN 0
    ELSE 16 * (Len(i.mag) - 1) + BitLen(i.mag[Len(i.mag)])

\* i + 1 for i >= 0
RECURSIVE MagInc(_)
MagInc(m) ==
    IF m = <<>> THEN <<1>>
    ELSE IF m[1] + 1 < Limb THEN <<m[1] + 1>> \o Tail(m)
    ELSE <<0>> \o MagInc(Tail(m))

PyInc(i) == PyInt(FALSE, MagInc(i.mag))

\* a small natural number as a Python int
RECURSIVE NatMag(_)
NatMag(n) == IF n = 0 THEN <<>> ELSE <<n % Limb>> \o NatMag(n \div Limb)

PyNat(n) == PyInt(FALSE, NatMag(n))

\* byte k (from 1, least significant first) of a magnitude
MagByte(m, k) ==
    LET l == (k + 1) \div 2
    IN  IF l > Len(m) THEN 0
        ELSE IF k % 2 = 1 THEN m[l] % 256 ELSE m[l] \div 256

\* 2^(8n) - magnitude, as n little-endian bytes: invert and add one
RECURSIVE TwosComplement(_, _)
TwosComplement(b, carry) ==
    IF b = <<>> THEN <<>>
    ELSE LET v == (255 - b[1]) + carry
         IN  <<v % 256>> \o TwosComplement(Tail(b), v \div 256)

\* int.to_bytes(n, "little", signed=signed)
to_bytes(i, n, signed) ==
    LET plain == [k \in 1..n |-> MagByte(i.mag, k)]
    IN  IF i.neg /\ signed THEN TwosComplement(plain, 1) ELSE plain

-----------------------------------------------------------------------------
(* switch.py: the identifier encoder *)

\* _DOMAIN_SHORT = "adapt_lgt"
_DOMAIN_SHORT == <<"a", "d", "a", "p", "t", "_", "l", "g", "t">>

\* the alphabet of base64.b85encode; the grave accent, which a string of
\* this language cannot hold, is the token "BACKQUOTE"
B85Alphabet ==
    <<"0", "1", "2", "3", "4", "5", "6", "7", "8", "9",
      "A", "B", "C", "D", "E", "F", "G", "H", "I", "J", "K", "L", "M",
      "N", "O", "P", "Q", "R", "S", "T", "U", "V", "W", "X", "Y", "Z",
      "a", "b", "c", "d", "e", "f", "g", "h", "i", "j", "k", "l", "m",
      "n", "o", "p", "q", "r", "s", "t", "u", "v", "w", "x", "y", "z",
      "!", "#", "$", "%", "&", "(", ")", "*", "+", "-", ";", "<", "=",
      ">", "?", "@", "^", "_", "BACKQUOTE", "{", "|", "}", "~">>

\* the k base-85 digits, most significant first, of the 32-bit word
\* hi * 2^16 + lo (long division by 85, one 16-bit half at a time)
RECURSIVE Digits85(_, _, _)
Digits85(hi, lo, k) ==
    IF k = 0 THEN <<>>
    ELSE LET cur == (hi % 85) * Limb + lo
         IN  Digits85(hi \div 85, cur \div 85, k - 1) \o <<cur % 85>>

\* one 4-byte big-endian chunk as 5 characters
B85Chunk(b) ==
    LET d == Digits85(b[1] * 256 + b[2], b[3] * 256 + b[4], 5)
    IN  [k \in 1..5 |-> B85Alphabet[d[k] + 1]]

RECURSIVE B85Chunks(_)
B85Chunks(b) ==
    IF b = <<>> THEN <<>>
    ELSE B85Chunk(SubSeq(b, 1, 4)) \o B85Chunks(SubSeq(b, 5, Len(b)))

\* base64.b85encode(b): zero-pad to a multiple of 4 bytes, 5 characters per
\* 4 bytes, then drop as many characters as bytes were padded
b85encode(b) ==
    LET padding == (4 - (Len(b) % 4)) % 4
        chars == B85Chunks(b \o Repeat(0, padding))
    IN  SubSeq(chars, 1, Len(chars) - padding)

_int_to_bytes(i, signed) ==
    LET bits == bit_length(i) + (IF signed THEN 1 ELSE 0)
    IN  to_bytes(i, (bits + 7) \div 8, signed)

\* hash(string): 0 for the empty string, else this run's value for it
PyHash(string) == IF string = <<>> THEN PyZero ELSE hashfn[string]

\* _short_hash(string, length=4)
_short_hash(string) ==
    Prefix(b85encode(_int_to_bytes(PyHash(string), TRUE)), 4)

\* Context(id=..., parent_id=...)
Context(id, parent_id) == [id |-> id, parent_id |-> parent_id]

\* f"{_DOMAIN_SHORT}:{name_hash}:{which}:{index_packed}"
ComposedId(name, which, index) ==
    _DOMAIN_SHORT \o <<":">> \o _short_hash(name) \o <<":">> \o which
        \o <<":">> \o b85encode(_int_to_bytes(index, FALSE))

\* a slip: the composed identifier used as it is, without the [:36]
ContextIdUncut(name, which, index) == ComposedId(name, which, index)

\* a slip: cut to the 32 characters of a UUID's hexadecimal form
ContextIdCut32(name, which, index) == Prefix(ComposedId(name, which, index), 32)

\* context_id: the composed identifier cut to 36 characters
ContextId(name, which, index) == Prefix(ComposedId(name, which, index), 36)

create_context(name, which, index, parent) ==
    Context(ContextId(name, which, index),
            IF parent # NoneVal THEN parent.id ELSE NoneVal)

\* DOMAIN = "presence_simulator" (const.py)
DomainName == <<"p", "r", "e", "s", "e", "n", "c", "e", "_", "s", "i", "m", "u", "l", "a", "t", "o", "r">>

\* a slip: the integration's domain in place of the short tag
IsOurContextByDomain(context) ==
    IF context = NoneVal THEN FALSE
    ELSE StartsWith(context.id, DomainName)

is_our_context(context) ==
    IF context = NoneVal THEN FALSE
    ELSE StartsWith(context.id, _DOMAIN_SHORT)

-----------------------------------------------------------------------------
(* Python values of the configuration layers                               *)
(*   str        [t |-> "str", s |-> characters]                            *)
(*   int        [t |-> "int", i |-> n]   (small: a machine integer)        *)
(*   float      [t |-> "float", f |-> n] (whole numbers only)              *)
(*   timedelta  [t |-> "timedelta", seconds |-> n]                         *)
(*   list       [t |-> "list", items |-> sequence]                         *)
(*   the type str  StrType                                                 *)
(*   dict       a function from keys (strings) to values                   *)

StrV(chars) == [t |-> "str", s |-> chars]
IntV(n) == [t |-> "int", i |-> n]
FloatV(n) == [t |-> "float", f |-> n]
TimedeltaV(n) == [t |-> "timedelta", seconds |-> n]
ListV(items) == [t |-> "list", items |-> items]
StrType == [t |-> "type", name |-> "str"]
EmptyDict == [k \in {} |-> NoneVal]

\* d.update(other), as a new mapping
DictUpdate(d, other) ==
    [k \in DOMAIN d \cup DOMAIN other |->
        IF k \in DOMAIN other THEN other[k] ELSE d[k]]

\* d.get(key)
DictGet(d, key) == IF key \in DOMAIN d THEN d[key] ELSE NoneVal

-----------------------------------------------------------------------------
(* const.py *)

\* NONE_STR = "None"
NONE_STR == StrV(<<"N", "o", "n", "e">>)

CONF_LIGHTS == "lights"
CONF_AUTOMATIONS == "automations"
CONF_INTERVAL == "interval"
CONF_PLAYBACK_DAYS == "playback_days"
CONF_AUTOMATIONS_FILTER == "automation_filter"
CONF_LIGHTS_FILTER == "lights_filter"
\* homeassistant.const.CONF_NAME, the key PresenceSimulator.__init__ reads
CONF_NAME == "name"

DEFAULT_LIGHTS == ListV(<<StrType>>)
DEFAULT_AUTOMATIONS == ListV(<<StrType>>)
DEFAULT_INTERVAL == IntV(10)
DEFAULT_PLAYBACK_DAYS == IntV(7)
DEFAULT_AUTOMATIONS_FILTER == StrV(<<"%", "z", "i", "g", "b", "e", "e", "2", "m", "q", "t", "t", "/", "F", "e", "l", "l", "e", "r", "%">>)
DEFAULT_LIGHTS_FILTER == StrV(<<>>)

\* VALIDATION_TUPLES: (key, default, validator)
VALIDATION_TUPLES ==
    <<[key |-> CONF_AUTOMATIONS, default |-> DEFAULT_AUTOMATIONS,
       validator |-> "cv.entity_ids"],
      [key |-> CONF_AUTOMATIONS_FILTER, default |-> DEFAULT_AUTOMATIONS_FILTER,
       validator |-> "cv.string"],
      [key |-> CONF_LIGHTS, default |-> DEFAULT_LIGHTS,
       validator |-> "cv.entity_ids"],
      [key |-> CONF_LIGHTS_FILTER, default |-> DEFAULT_LIGHTS_FILTER,
       validator |-> "cv.string"],
      [key |-> CONF_PLAYBACK_DAYS, default |-> DEFAULT_PLAYBACK_DAYS,
       validator |-> "int_between(1, 14)"],
      [key |-> CONF_INTERVAL, default |-> DEFAULT_INTERVAL,
       validator |-> "cv.positive_int"]>>

\* a slip: nothing is replaced
ReplaceNoneStrKeeps(value) == value

\* replace_none_str(value, replace_with=None)
replace_none_str(value) == IF value # NONE_STR THEN value ELSE NoneVal

\* timedelta_as_int(value): value.total_seconds(), a float
timedelta_as_int(value) == FloatV(value.seconds)

\* EXTRA_VALIDATION: key -> (validator, coercion); its keys in order
EXTRA_VALIDATION_KEYS == <<CONF_INTERVAL>>
EXTRA_VALIDATION ==
    [k \in {CONF_INTERVAL} |->
        [validate_value |-> "cv.time_period", coerce |-> "timedelta_as_int"]]

-----------------------------------------------------------------------------
(* homeassistant.helpers.config_validation (cv) and voluptuous: the        *)
(* validators const.py names.  A validator returns [ok |-> TRUE, value]    *)
(* or [ok |-> FALSE], which stands for raising vol.Invalid.                *)
(* Number literals are whole numbers with an optional sign.                *)

Invalid == [ok |-> FALSE]
Valid(value) == [ok |-> TRUE, value |-> value]

DigitChars == <<"0", "1", "2", "3", "4", "5", "6", "7", "8", "9">>
IsDigit(c) == \E d \in 1..10 : DigitChars[d] = c
DigitValue(c) == (CHOOSE d \in 1..10 : DigitChars[d] = c) - 1

RECURSIVE NatLiteral(_)
NatLiteral(chars) ==
    IF chars = <<>> THEN 0
    ELSE 10 * NatLiteral(SubSeq(chars, 1, Len(chars) - 1))
           + DigitValue(chars[Len(chars)])

Unsigned(chars) ==
    IF chars # <<>> /\ chars[1] \in {"-", "+"} THEN Tail(chars) ELSE chars

\* int(chars) and float(chars) succeed
IsNumberLiteral(chars) ==
    /\ Unsigned(chars) # <<>>
    /\ \A k \in 1..Len(Unsigned(chars)) : IsDigit(Unsigned(chars)[k])

NumberLiteral(chars) ==
    IF chars[1] = "-" THEN 0 - NatLiteral(Unsigned(chars))
    ELSE NatLiteral(Unsigned(chars))

\* chars.split(sep)
RECURSIVE Split(_, _)
Split(chars, sep) ==
    IF \A k \in 1..Len(chars) : chars[k] # sep THEN <<chars>>
    ELSE LET at == CHOOSE k \in 1..Len(chars) :
                      chars[k] = sep /\ \A j \in 1..(k - 1) : chars[j] # sep
         IN  <<SubSeq(chars, 1, at - 1)>>
               \o Split(SubSeq(chars, at + 1, Len(chars)), sep)

\* cv.time_period_str: "HH:MM" or "HH:MM:SS", with an optional sign
time_period_str(value) ==
    IF value.t # "str" THEN Invalid
    ELSE LET negative == value.s # <<>> /\ value.s[1] = "-"
             parsed == Split(Unsigned(value.s), ":")
         IN  IF Len(parsed) \notin {2, 3} THEN Invalid
             ELSE IF \E k \in 1..Len(parsed) : ~IsNumberLiteral(parsed[k])
             THEN Invalid
             ELSE LET offset ==
                          3600 * NumberLiteral(parsed[1])
                            + 60 * NumberLiteral(parsed[2])
                            + (IF Len(parsed) = 3
                               THEN NumberLiteral(parsed[3]) ELSE 0)
                  IN  Valid(TimedeltaV(IF negative THEN 0 - offset ELSE offset))

\* cv.time_period_seconds: vol.All(vol.Coerce(float), timedelta(seconds=...))
time_period_seconds(value) ==
    IF value.t \in {"int", "float"}
    THEN Valid(TimedeltaV(IF value.t = "int" THEN value.i ELSE value.f))
    ELSE IF value.t = "str" /\ IsNumberLiteral(value.s)
    THEN Valid(TimedeltaV(NumberLiteral(value.s)))
    ELSE Invalid

\* cv.time_period: vol.Any(time_period_str, time_period_seconds, timedelta,
\* time_period_dict); the layers hold no dict
time_period(value) ==
    IF time_period_str(value).ok THEN time_period_str(value)
    ELSE IF time_period_seconds(value).ok THEN time_period_seconds(value)
    ELSE IF value.t = "timedelta" THEN Valid(value)
    ELSE Invalid

\* vol.Coerce(int)
CoerceInt(value) ==
    IF value.t = "int" THEN Valid(value)
    ELSE IF value.t = "float" THEN Valid(IntV(value.f))
    ELSE IF value.t = "str" /\ IsNumberLiteral(value.s)
    THEN Valid(IntV(NumberLiteral(value.s)))
    ELSE Invalid

\* int_between(min_int, max_int): vol.All(vol.Coerce(int), vol.Range(...))
int_between(min_int, max_int, value) ==
    IF ~CoerceInt(value).ok THEN Invalid
    ELSE IF CoerceInt(value).value.i < min_int
              \/ CoerceInt(value).value.i > max_int THEN Invalid
    ELSE CoerceInt(value)

\* cv.positive_int: vol.All(vol.Coerce(int), vol.Range(min=0))
positive_int(value) ==
    IF ~CoerceInt(value).ok THEN Invalid
    ELSE IF CoerceInt(value).value.i < 0 THEN Invalid
    ELSE CoerceInt(value)

\* cv.string: None and containers are refused, a str is returned as it is
\* (other values are returned as their str(), which is left unrendered)
string(value) ==
    IF value.t \in {"None", "list"} THEN Invalid ELSE Valid(value)

\* cv.entity_ids, by the kind of the value alone: a str, or a list of str
entity_ids(value) ==
    IF value.t = "str" THEN Valid(value)
    ELSE IF value.t = "list"
              /\ \A k \in 1..Len(value.items) : value.items[k].t = "str"
    THEN Valid(value)
    ELSE Invalid

\* the validator a name of VALIDATION_TUPLES or EXTRA_VALIDATION stands for
CallValidator(validator, value) ==
    CASE validator = "cv.time_period" -> time_period(value)
      [] validator = "int_between(1, 14)" -> int_between(1, 14, value)
      [] validator = "cv.positive_int" -> positive_int(value)
      [] validator = "cv.string" -> string(value)
      [] validator = "cv.entity_ids" -> entity_ids(value)

-----------------------------------------------------------------------------
(* switch.py: validate(entry) *)

\* {key: default for key, default, _ in VALIDATION_TUPLES}
Defaults(tuples) ==
    [k \in {tuples[n].key : n \in 1..Len(tuples)} |->
        tuples[CHOOSE n \in 1..Len(tuples) :
                  tuples[n].key = k
                    /\ \A m \in (n + 1)..Len(tuples) : tuples[m].key # k].default]

\* a slip: the options applied after the data
MergedOptionsLast(data, e) ==
    DictUpdate(DictUpdate(data, e.data), e.options)

\* a slip: the layers override the keys of the schema only
MergedSchemaKeysOnly(data, e) ==
    LET all == DictUpdate(DictUpdate(data, e.options), e.data)
    IN  [k \in DOMAIN data |-> all[k]]

\* data.update(entry.options); data.update(entry.data): the items of data
\* after the two updates
Merged(data, e) ==
    DictUpdate(DictUpdate(data, e.options), e.data)

\* {key: replace_none_str(value) for key, value in data.items()}
Replaced(data) == [k \in DOMAIN data |-> replace_none_str(data[k])]

\* a slip: the coercion of the pair applied on top of the validator
FixTypeCoerced(key, value) ==
    LET fixed == CallValidator(EXTRA_VALIDATION[key].validate_value, value)
    IN  IF fixed.ok THEN Valid(timedelta_as_int(fixed.value)) ELSE fixed

\* validate_value(value), validate_value the first of EXTRA_VALIDATION[key]
FixType(key, value) ==
    CallValidator(EXTRA_VALIDATION[key].validate_value, value)

\* for key, (validate_value, _) in EXTRA_VALIDATION.items(): ...
\* returns [raised |-> FALSE, data] or, when a validator raises,
\* [raised |-> TRUE, exc]
RECURSIVE FixTypes(_, _)
FixTypes(data, keys) ==
    IF keys = <<>> THEN [raised |-> FALSE, data |-> data]
    ELSE LET key == Head(keys)
             value == DictGet(data, key)
         IN  IF value = NoneVal THEN FixTypes(data, Tail(keys))
             ELSE IF ~FixType(key, value).ok
             THEN [raised |-> TRUE, exc |-> "vol.Invalid"]
             ELSE FixTypes(DictUpdate(data, [k \in {key} |->
                                        FixType(key, value).value]),
                           Tail(keys))

-----------------------------------------------------------------------------
(* The objects validate works on.  A dict or a list is an object of the    *)
(* heap, a sequence of objects indexed by address; a value is a str, int,  *)
(* float, timedelta, None or type (immutable, held in place) or a          *)
(* reference to an object.  A dict object holds its items as a function    *)
(* from keys to values, a list object is ListV(items).                     *)

Ref(addr) == [t |-> "ref", addr |-> addr]
DictObject(items) == [t |-> "dict", items |-> items]

\* a new object: the heap with it, and the reference to it
Alloc(h, object) == [heap |-> Append(h, object), ref |-> Ref(Len(h) + 1)]

\* the object a reference stands for; any other value is itself
Deref(h, value) == IF value.t = "ref" THEN h[value.addr] ELSE value

\* the module's objects and the entry's, where the import and the host put
\* them: DEFAULT_AUTOMATIONS, DEFAULT_LIGHTS, VALIDATION_TUPLES,
\* entry.options, entry.data
AddrDefaultAutomations == 1
AddrDefaultLights == 2
AddrValidationTuples == 3
AddrOptions == 4
AddrData == 5

\* the ConfigEntry: its two mappings
EntryRefs == [options |-> Ref(AddrOptions), data |-> Ref(AddrData)]

\* the heap once const.py is imported and the host holds an entry with the
\* given options and data: each tuple of VALIDATION_TUPLES refers to the
\* default list its line names
InitialHeap(e) ==
    <<DEFAULT_AUTOMATIONS,
      DEFAULT_LIGHTS,
      ListV([n \in 1..Len(VALIDATION_TUPLES) |->
                 [VALIDATION_TUPLES[n] EXCEPT
                     !.default =
                         IF VALIDATION_TUPLES[n].key = CONF_AUTOMATIONS
                         THEN Ref(AddrDefaultAutomations)
                         ELSE IF VALIDATION_TUPLES[n].key = CONF_LIGHTS
                         THEN Ref(AddrDefaultLights)
                         ELSE @]]),
      DictObject(e.options),
      DictObject(e.data)>>

\* a dict as its contents: every reference among its values followed
DictView(h, ref) ==
    [k \in DOMAIN h[ref.addr].items |-> Deref(h, h[ref.addr].items[k])]

\* VALIDATION_TUPLES as its contents
TuplesView(h) ==
    [n \in 1..Len(h[AddrValidationTuples].items) |->
        [h[AddrValidationTuples].items[n] EXCEPT !.default = Deref(h, @)]]

\* the entry as its contents
EntryView(h, e) ==
    [options |-> DictView(h, e.options), data |-> DictView(h, e.data)]

\* copy.deepcopy of the values of a dict: a list is copied to a new object
\* (its items, types, are shared), any other value is returned as it is
RECURSIVE DeepcopyItems(_, _, _)
DeepcopyItems(h, items, keys) ==
    IF keys = {} THEN [heap |-> h, items |-> items]
    ELSE LET key == CHOOSE k \in keys : TRUE
         IN  IF items[key].t = "ref"
             THEN LET made == Alloc(h, h[items[key].addr])
                  IN  DeepcopyItems(made.heap,
                                    [items EXCEPT ![key] = made.ref],
                                    keys \ {key})
             ELSE DeepcopyItems(h, items, keys \ {key})

\* copy.deepcopy(d) of a dict d: a new dict of the copied values
deepcopy(h, ref) ==
    LET copied == DeepcopyItems(h, h[ref.addr].items,
                                DOMAIN h[ref.addr].items)
    IN  Alloc(copied.heap, DictObject(copied.items))

-----------------------------------------------------------------------------
(* switch.py: validate(entry), step by step on the heap *)

\* a slip: the entry's options taken as the data to work on, with no
\* defaults and no copy (data = entry.options)
NewDataIsOptions(h, e) == [heap |-> h, ref |-> e.options]

\* defaults = {key: default for ...}; data = deepcopy(defaults):
\* the heap with the two new dicts, and the reference data holds
NewData(h, e) ==
    LET defaults ==
            Alloc(h, DictObject(Defaults(h[AddrValidationTuples].items)))
    IN  deepcopy(defaults.heap, defaults.ref)

\* validate down to the dict comprehension: data is made, updated in place
\* with entry.options and entry.data as they are on the heap, and a new
\* dict is made of it with the sentinel replaced
MergedData(h, e) ==
    LET new == NewData(h, e)
        data == new.ref.addr
        updated ==
            [new.heap EXCEPT
                ![data].items =
                    Merged(@, [options |-> new.heap[e.options.addr].items,
                               data |-> new.heap[e.data.addr].items])]
    IN  Alloc(updated, DictObject(Replaced(updated[data].items)))

\* the loop over EXTRA_VALIDATION on the dict m refers to, which is changed
\* in place, and the return: [heap, raised |-> FALSE, data] with the
\* reference returned or, when a validator raises, [heap, raised |-> TRUE,
\* exc]
FixedData(m) ==
    LET fixed == FixTypes(m.heap[m.ref.addr].items, EXTRA_VALIDATION_KEYS)
    IN  IF fixed.raised
        THEN [heap |-> m.heap, raised |-> TRUE, exc |-> fixed.exc]
        ELSE [heap |-> [m.heap EXCEPT ![m.ref.addr].items = fixed.data],
              raised |-> FALSE, data |-> m.ref]

\* a slip: every value is put through the validator VALIDATION_TUPLES declares
ValidateDeclared(h, e) ==
    LET m == MergedData(h, e)
        data == DictView(m.heap, m.ref)
        tuples == TuplesView(m.heap)
    IN  IF \E n \in 1..Len(tuples) :
              ~CallValidator(tuples[n].validator, data[tuples[n].key]).ok
        THEN [heap |-> m.heap, raised |-> TRUE, exc |-> "vol.Invalid"]
        ELSE FixedData(m)

\* validate(entry) on heap h: the heap it leaves and what it returns or
\* raises
validate(h, e) == FixedData(MergedData(h, e))

\* what a call returned, as contents, or what it raised
ResultView(run) ==
    IF run.raised THEN [raised |-> TRUE, exc |-> run.exc]
    ELSE [raised |-> FALSE, data |-> DictView(run.heap, run.data)]

\* the whole effect of a call on heap h: the heap it leaves and, read off
\* that heap, the result, the entry and VALIDATION_TUPLES
ValidateEffect(h, e) ==
    LET run == validate(h, e)
    IN  [heap |-> run.heap,
         returned |-> ResultView(run),
         entry |-> EntryView(run.heap, e),
         tuples |-> TuplesView(run.heap)]

-----------------------------------------------------------------------------
(* Inputs of the identifier encoder *)

MaxWhichLen == 40
MaxIndexBytes == 7

\* 256^k - 1 and 256^k as magnitudes
AllOnes(k) == [l \in 1..((k + 1) \div 2) |->
                  IF k % 2 = 1 /\ l = (k + 1) \div 2 THEN 255 ELSE Limb - 1]
OneThenZeros(k) == [l \in 1..(k \div 2 + 1) |->
                  IF l <= k \div 2 THEN 0 ELSE IF k % 2 = 1 THEN 256 ELSE 1]

\* 2^48 - 1 - 2^40: the largest 6-byte index but for its top byte
NearTop48 == PyInt(FALSE, <<Limb - 1, Limb - 1, Limb - 257>>)

\* sequence_index values: 0 and 1, then the largest value of 1, 4, 6 and
\* MaxIndexBytes bytes, 2^48 and NearTop48
Indices ==
    {PyInt(FALSE, AllOnes(k)) : k \in {0, 1, 4, 6, MaxIndexBytes}}
      \cup {PyInt(FALSE, OneThenZeros(k)) : k \in {0, 6}}
      \cup {NearTop48}

\* i < 2^48, for i >= 0
Below2Pow48(i) == Len(i.mag) <= 3

NameLivingRoom == <<"L", "i", "v", "i", "n", "g", " ", "R", "o", "o", "m">>
Names == {<<>>, NameLivingRoom}

\* hash() values of a 64-bit build, one per length of the signed byte
\* string: -2 (1 byte), 128 (2), -32768 (3), 2^63 - 1 (8), -2^63 (9)
HashValues ==
    {PyInt(TRUE, <<2>>), PyInt(FALSE, <<128>>), PyInt(TRUE, <<32768>>),
     PyInt(FALSE, <<Limb - 1, Limb - 1, Limb - 1, 32767>>),
     PyInt(TRUE, <<0, 0, 0, 32768>>)}

WhichTurnOn == <<"t", "u", "r", "n", "_", "o", "n">>
WhichAdaptLights == <<"a", "d", "a", "p", "t", "_", "l", "i", "g", "h", "t", "s">>
Whichs ==
    {<<>>, WhichAdaptLights}
      \cup {Repeat("x", n) : n \in {13, MaxWhichLen}}

\* contexts made elsewhere: the host's own identifiers and near misses of the tag
HostContext == Context(<<"0", "1", "H", "F", "3", "Q", "2", "Z", "7", "K", "8", "M", "9", "N", "0", "P", "1", "R", "2", "S", "3", "T", "4", "V", "5", "W">>, NoneVal)
ForeignIds ==
    {     <<"a", "d", "a", "p", "t", "_", "l", "g">>,
     <<"a", "d", "a", "p", "t", "_", "l", "g", "t">>,
     <<"x", "a", "d", "a", "p", "t", "_", "l", "g", "t", ":", "0", "R">>,
     <<"0", "1", "H", "F", "3", "Q", "2", "Z", "7", "K", "8", "M", "9", "N", "0", "P", "1", "R", "2", "S", "3", "T", "4", "V", "5", "W">>}
ForeignContexts == {Context(id, NoneVal) : id \in ForeignIds}

-----------------------------------------------------------------------------
(* Initial values of the parts a specification does not exercise *)

PyTrue == [t |-> "bool", b |-> TRUE]
PyFalse == [t |-> "bool", b |-> FALSE]

CtxIdle == hashfn = NoneVal /\ ctx = NoneVal /\ verdict = NoneVal
CfgIdle ==
    /\ heap = <<>>
    /\ entry = NoneVal /\ validation_tuples = NoneVal /\ resolved = NoneVal
EntIdle ==
    /\ _name = NoneVal /\ _state = NoneVal /\ remove_listeners = <<>> /\ _context_cnt = PyZero
    /\ is_running = FALSE /\ started_listener = FALSE /\ phase = "none"
    /\ error = NoneVal /\ invoked = <<>>
    /\ last_call = "none" /\ nswitch = 0

-----------------------------------------------------------------------------
(* switch.py: class PresenceSimulator.  The methods work on the entity's   *)
(* mutable fields, self = [state, listeners, invoked, error, last]:        *)
(* _state, remove_listeners, the handles invoked so far (oldest first),    *)
(* the exception the running method has raised (None while it has not)     *)
(* and the name of the last of async_turn_on and async_turn_off to have    *)
(* been entered ("none" before the first).                                 *)

STATE_ON == "on"
STATE_OFF == "off"

\* a State of the host's state machine, as async_get_last_state() returns it
State(state) == [t |-> "State", state |-> state]

\* the AssertionError a failed assert raises
AssertionError == [t |-> "AssertionError"]

\* is_on: bool(self._state)
is_on(self) == self.state = PyTrue

\* _setup_listeners: returns early unless the switch is on and the host
\* runs; then asserts that no listener handle is left
_setup_listeners(self, running) ==
    IF ~is_on(self) \/ ~running THEN self
    ELSE IF self.listeners # <<>>
    THEN [self EXCEPT !.error = AssertionError]
    ELSE self

\* _remove_listeners: pops each handle off the end of the list and calls it
RECURSIVE _remove_listeners(_)
_remove_listeners(self) ==
    IF self.listeners = <<>> THEN self
    ELSE _remove_listeners(
             [self EXCEPT
                 !.listeners = SubSeq(@, 1, Len(@) - 1),
                 !.invoked = Append(@, self.listeners[Len(self.listeners)])])

\* async_turn_on: nothing if the switch is on, else on and _setup_listeners
async_turn_on(self, running) ==
    LET entered == [self EXCEPT !.last = "async_turn_on"]
    IN  IF is_on(entered) THEN entered
        ELSE _setup_listeners([entered EXCEPT !.state = PyTrue], running)

\* a slip: the switch goes off and its listener handles are left in place
AsyncTurnOffKeepsListeners(self) ==
    LET entered == [self EXCEPT !.last = "async_turn_off"]
    IN  IF ~is_on(entered) THEN entered
        ELSE [entered EXCEPT !.state = PyFalse]

\* async_turn_off: nothing if the switch is off, else off and
\* _remove_listeners
async_turn_off(self) ==
    LET entered == [self EXCEPT !.last = "async_turn_off"]
    IN  IF ~is_on(entered) THEN entered
        ELSE _remove_listeners([entered EXCEPT !.state = PyFalse])

\* async_added_to_hass up to its await of async_get_last_state(): with the
\* host running, _setup_listeners; otherwise the method leaves a listener
\* for the host's start (the action that calls this records it)
async_added_to_hass(self, running) ==
    IF running THEN _setup_listeners(self, running) ELSE self

\* async_added_to_hass from the await on: last_state is what
\* async_get_last_state() returned, None or a State; self and running are
\* the entity and the host as they are when the method resumes
async_added_to_hass_resumed(self, running, last_state) ==
    IF last_state = NoneVal THEN async_turn_on(self, running)
    ELSE IF last_state.state = STATE_ON THEN async_turn_on(self, running)
    ELSE LET off == [self EXCEPT !.state = PyFalse]
         IN  IF off.listeners # <<>>
             THEN [off EXCEPT !.error = AssertionError]
             ELSE off

\* a slip: the counter is stepped before the context is made
EntityCreateContextStepFirst(name, cnt, which, parent) ==
    [context |-> create_context(name, which, PyInc(cnt), parent),
     cnt |-> PyInc(cnt)]

\* PresenceSimulator.create_context: the context it returns and the counter
\* it leaves
EntityCreateContext(name, cnt, which, parent) ==
    [context |-> create_context(name, which, cnt, parent),
     cnt |-> PyInc(cnt)]

-----------------------------------------------------------------------------
(* The identifier encoder as a state machine: a process run fixes hash(),  *)
(* then create_context and is_our_context are called with any arguments.   *)
(* ctx and verdict hold the latest call of each function; a call on a      *)
(* context other than the one in ctx lets go of ctx.                       *)

InitCtx ==
    /\ hashfn \in [Names \ {<<>>} -> HashValues]
    /\ ctx = NoneVal
    /\ verdict = NoneVal
    /\ ncalls = 0
    /\ CfgIdle /\ EntIdle

\* context = create_context(name, which, index, parent)
CallCreateContext ==
    \E name \in Names, which \in Whichs, index \in Indices,
       parent \in {NoneVal, HostContext} :
        /\ ctx' = [name |-> name, which |-> which, index |-> index,
                   parent |-> parent,
                   context |-> create_context(name, which, index, parent)]
        /\ verdict' = NoneVal
        /\ UNCHANGED <<hashfn, ncalls>>
        /\ UNCHANGED cfgVars /\ UNCHANGED entVars

\* is_our_context(context) on the context just made
CallIsOurContextMade ==
    /\ ctx # NoneVal
    /\ verdict' = [context |-> ctx.context,
                   answer |-> is_our_context(ctx.context)]
    /\ UNCHANGED <<hashfn, ctx, ncalls>>
    /\ UNCHANGED cfgVars /\ UNCHANGED entVars

\* is_our_context(context) on None or on a context made elsewhere
CallIsOurContextOther ==
    \E c \in {NoneVal} \cup ForeignContexts :
        /\ verdict' = [context |-> c, answer |-> is_our_context(c)]
        /\ ctx' = NoneVal
        /\ UNCHANGED <<hashfn, ncalls>>
        /\ UNCHANGED cfgVars /\ UNCHANGED entVars

NextCtx == CallCreateContext \/ CallIsOurContextMade \/ CallIsOurContextOther

SpecCtx == InitCtx /\ [][NextCtx]_vars

-----------------------------------------------------------------------------
(* Properties of the identifier encoder, checked under SpecCtx *)

\* C1: whatever the name, the category (of any length), the index and the
\* parent, the identifier of the context create_context returns has at
\* most 36 characters.
C1_IdAtMost36 ==
    ctx # NoneVal => Len(ctx.context.id) <= 36

\* a call whose composed identifier is longer than 36 characters (a long
\* category and a 7-byte index) has returned an identifier of exactly 36
C1_Witness ==
    /\ ctx # NoneVal
    /\ Len(ctx.which) = MaxWhichLen
    /\ ~Below2Pow48(ctx.index)
    /\ Len(ComposedId(ctx.name, ctx.which, ctx.index)) > 36
    /\ Len(ctx.context.id) = 36

\* the identifier's first characters are those of the origin tag
BeginsWithTag(id) ==
    /\ Len(id) >= Len(_DOMAIN_SHORT)
    /\ \A k \in 1..Len(_DOMAIN_SHORT) : id[k] = _DOMAIN_SHORT[k]

\* C2: is_our_context answers false for None, otherwise true exactly when
\* the identifier begins with the origin tag, and so true for every context
\* create_context made, truncated or not.
C2_IsOurContext ==
    verdict # NoneVal =>
        /\ verdict.context = NoneVal => ~verdict.answer
        /\ verdict.context # NoneVal =>
               (verdict.answer <=> BeginsWithTag(verdict.context.id))
        /\ ctx # NoneVal => verdict.answer

\* is_our_context has answered true for a made context whose identifier was
\* truncated and whose name is the empty string
C2_Witness ==
    /\ ctx # NoneVal /\ verdict # NoneVal
    /\ verdict.context = ctx.context
    /\ ctx.name = <<>>
    /\ Len(ComposedId(ctx.name, ctx.which, ctx.index)) > 36
    /\ verdict.answer

\* the tag and the name digest, with their separators: "adapt_lgt:XXXX:"
TagAndDigest(name) == _DOMAIN_SHORT \o <<":">> \o _short_hash(name) \o <<":">>

\* C10: with a category of at most 12 characters and indices below 2^48 the
\* composed identifier fits in 36 characters, so nothing is truncated; two
\* consecutive calls with the same name and category return different
\* identifiers if their indices differ, both beginning with the same tag
\* and name digest, and the same identifier if the indices are equal.
C10_DistinctBelow2Pow48 ==
    [][(/\ ctx # NoneVal /\ ctx' # NoneVal
        /\ ctx'.name = ctx.name /\ ctx'.which = ctx.which
        /\ Len(ctx.which) <= 12
        /\ Below2Pow48(ctx.index) /\ Below2Pow48(ctx'.index))
       => /\ ctx'.context.id = ComposedId(ctx'.name, ctx'.which, ctx'.index)
          /\ Len(ctx'.context.id) <= 36
          /\ StartsWith(ctx.context.id, TagAndDigest(ctx.name))
          /\ StartsWith(ctx'.context.id, TagAndDigest(ctx.name))
          /\ (ctx'.index # ctx.index => ctx'.context.id # ctx.context.id)
          /\ (ctx'.index = ctx.index => ctx'.context.id = ctx.context.id)]_vars

\* a 12-character category with the largest index below 2^48 has filled all
\* 36 characters
C10_Witness ==
    /\ ctx # NoneVal
    /\ Len(ctx.which) = 12
    /\ ctx.index = PyInt(FALSE, AllOnes(6))
    /\ Len(_short_hash(ctx.name)) = 4
    /\ Len(ctx.context.id) = 36
    /\ ctx.context.id = ComposedId(ctx.name, ctx.which, ctx.index)

\* the positions of the ":" separators of an identifier, in order
Colons(id) == {k \in 1..Len(id) : id[k] = ":"}

\* the name digest read back from an identifier: the characters between
\* its first and its second ":"
DigestField(id) ==
    LET first == CHOOSE k \in Colons(id) : \A j \in Colons(id) : k <= j
        second == CHOOSE k \in Colons(id) \ {first} :
                      \A j \in Colons(id) \ {first} : k <= j
    IN  SubSeq(id, first + 1, second - 1)

\* C11 as stated: the name digest is fixed-width: whatever the name hashes
\* to (0 and values of small magnitude included), _short_hash returns
\* exactly 4 characters, so in every identifier the digest field has 4
\* characters and the category field starts right after
\* "adapt_lgt:XXXX:", at the same offset.
C11_DigestFixedWidth ==
    ctx # NoneVal =>
        /\ Len(_short_hash(ctx.name)) = 4
        /\ Len(DigestField(ctx.context.id)) = 4
        /\ Prefix(_DOMAIN_SHORT \o <<":">> \o DigestField(ctx.context.id)
                    \o <<":">> \o ctx.which, 36)
               = Prefix(ctx.context.id, Len(_DOMAIN_SHORT) + 6 + Len(ctx.which))

\* the empty name, whose hash is 0 on every run, has been given the
\* 2-character digest "00": the category starts two characters early
C11_Witness ==
    /\ ctx # NoneVal
    /\ ctx.name = <<>>
    /\ ctx.which = WhichAdaptLights
    /\ _short_hash(ctx.name) = <<"0", "0">>
    /\ DigestField(ctx.context.id) = <<"0", "0">>
    /\ SubSeq(ctx.context.id, 14, 25) = WhichAdaptLights

-----------------------------------------------------------------------------
(* validate(entry) as a state machine: a config entry with any options and *)
(* data, on which validate is called again and again.                      *)

MaxValidateCalls == 2

LivingRoom == StrV(NameLivingRoom)
FiveMinutes == StrV(<<"0", ":", "0", "5", ":", "0", "0">>)

\* the values a layer may give a key
LayerChoices ==
    [k \in {CONF_LIGHTS_FILTER, CONF_PLAYBACK_DAYS, CONF_INTERVAL, CONF_NAME} |->
        CASE k = CONF_LIGHTS_FILTER -> {NONE_STR, StrV(<<"%", "x", "%">>)}
          [] k = CONF_PLAYBACK_DAYS -> {IntV(14), IntV(99)}
          [] k = CONF_INTERVAL ->
                 {FiveMinutes, IntV(0 - 5), NONE_STR, StrV(<<"a", "b", "c">>)}
          [] k = CONF_NAME -> {LivingRoom}]

\* entry.options and entry.data: any keys of LayerChoices, any of their values
Layers ==
    UNION {{f \in [K -> UNION {LayerChoices[k] : k \in K}] :
               \A k \in K : f[k] \in LayerChoices[k]} :
           K \in SUBSET DOMAIN LayerChoices}

InitCfg ==
    /\ entry \in [options : Layers, data : Layers]
    /\ heap = InitialHeap(entry)
    /\ validation_tuples = TuplesView(heap)
    /\ resolved = NoneVal
    /\ ncalls = 0
    /\ CtxIdle /\ EntIdle

\* data = validate(entry)
CallValidate ==
    /\ ncalls < MaxValidateCalls
    /\ LET effect == ValidateEffect(heap, EntryRefs)
       IN  /\ heap' = effect.heap
           /\ resolved' = effect.returned
           /\ entry' = effect.entry
           /\ validation_tuples' = effect.tuples
    /\ ncalls' = ncalls + 1
    /\ UNCHANGED ctxVars /\ UNCHANGED entVars

NextCfg == CallValidate

SpecCfg == InitCfg /\ [][NextCfg]_vars

-----------------------------------------------------------------------------
(* Properties of validate, checked under SpecCfg *)

SchemaKeys == {validation_tuples[n].key : n \in 1..Len(validation_tuples)}
SchemaEntry(k) ==
    validation_tuples[CHOOSE n \in 1..Len(validation_tuples) :
                         validation_tuples[n].key = k]

\* the value of the layer that takes precedence for key k
Chosen(k) ==
    IF k \in DOMAIN entry.data THEN entry.data[k]
    ELSE IF k \in DOMAIN entry.options THEN entry.options[k]
    ELSE SchemaEntry(k).default

Returned == resolved # NoneVal /\ ~resolved.raised

\* C3: for every key the resolved value comes from entry.data if the key is
\* there, else from entry.options if it is there, else from the schema
\* default (made absent if it is the sentinel, and for interval put through
\* the time-period validator).
C3_Precedence ==
    Returned =>
        \A k \in DOMAIN resolved.data :
            resolved.data[k] =
                IF Chosen(k) = NONE_STR THEN NoneVal
                ELSE IF k = CONF_INTERVAL THEN time_period(Chosen(k)).value
                ELSE Chosen(k)

\* options and data gave the same key different values and the data's won
C3_Witness ==
    /\ Returned
    /\ CONF_PLAYBACK_DAYS \in DOMAIN entry.options
    /\ CONF_PLAYBACK_DAYS \in DOMAIN entry.data
    /\ entry.options[CONF_PLAYBACK_DAYS] = IntV(14)
    /\ entry.data[CONF_PLAYBACK_DAYS] = IntV(99)
    /\ resolved.data[CONF_PLAYBACK_DAYS] = IntV(99)
    /\ CONF_LIGHTS_FILTER \in DOMAIN entry.options
    /\ CONF_LIGHTS_FILTER \notin DOMAIN entry.data
    /\ resolved.data[CONF_LIGHTS_FILTER] = entry.options[CONF_LIGHTS_FILTER]

\* C4 as stated: a non-absent interval is returned as the result of the
\* storage normalization, a plain count of seconds ("0:05:00" gives 300).
C4_Original ==
    (Returned /\ Chosen(CONF_INTERVAL) # NONE_STR) =>
        resolved.data[CONF_INTERVAL]
            = timedelta_as_int(time_period(Chosen(CONF_INTERVAL)).value)

\* C4 amended: a non-absent interval is returned as the validator
\* cv.time_period makes it, a structured time period and not a count of
\* seconds: "0:05:00" gives a period of 300 seconds, the default 10 a period
\* of 10 seconds.
C4_IntervalIsTimePeriod ==
    (Returned /\ Chosen(CONF_INTERVAL) # NONE_STR) =>
        /\ resolved.data[CONF_INTERVAL].t = "timedelta"
        /\ resolved.data[CONF_INTERVAL] = time_period(Chosen(CONF_INTERVAL)).value
        /\ Chosen(CONF_INTERVAL) = FiveMinutes
               => resolved.data[CONF_INTERVAL] = TimedeltaV(300)
        /\ Chosen(CONF_INTERVAL) = DEFAULT_INTERVAL
               => resolved.data[CONF_INTERVAL] = TimedeltaV(10)

\* the data gave "0:05:00" and validate returned a period of 300 seconds
C4_Witness ==
    /\ Returned
    /\ CONF_INTERVAL \in DOMAIN entry.data
    /\ entry.data[CONF_INTERVAL] = FiveMinutes
    /\ resolved.data[CONF_INTERVAL] = TimedeltaV(300)

\* the value in force for schema key k fails the validator declared for k
FailsDeclared(k) ==
    /\ k \in DOMAIN entry.options \cup DOMAIN entry.data
    /\ ~CallValidator(SchemaEntry(k).validator, Chosen(k)).ok

\* C5 as stated: a value supplied for a schema key that fails the key's
\* declared validator makes validate fail.
C5_Original ==
    (resolved # NoneVal /\ \E k \in SchemaKeys : FailsDeclared(k))
        => resolved.raised

\* C5 amended: validate applies none of the validators VALIDATION_TUPLES
\* declares: a supplied value that fails its declared validator is returned
\* as supplied (the sentinel as None).  validate fails, with vol.Invalid,
\* exactly when the interval in force is neither None nor the sentinel and
\* cv.time_period refuses it; a negative interval is accepted.
C5_OnlyTimePeriodRaises ==
    resolved # NoneVal =>
        /\ resolved.raised <=>
               /\ Chosen(CONF_INTERVAL) \notin {NoneVal, NONE_STR}
               /\ ~time_period(Chosen(CONF_INTERVAL)).ok
        /\ resolved.raised => resolved.exc = "vol.Invalid"
        /\ ~resolved.raised =>
               \A k \in SchemaKeys \ {CONF_INTERVAL} :
                   FailsDeclared(k) =>
                       resolved.data[k] = replace_none_str(Chosen(k))

\* playback_days = 99 and interval = -5 fail int_between(1, 14) and
\* cv.positive_int, and validate returned them
C5_Witness ==
    /\ Returned
    /\ Chosen(CONF_PLAYBACK_DAYS) = IntV(99)
    /\ FailsDeclared(CONF_PLAYBACK_DAYS)
    /\ resolved.data[CONF_PLAYBACK_DAYS] = IntV(99)
    /\ Chosen(CONF_INTERVAL) = IntV(0 - 5)
    /\ FailsDeclared(CONF_INTERVAL)
    /\ resolved.data[CONF_INTERVAL] = TimedeltaV(0 - 5)

\* C6: no returned value is the sentinel string "None": a key whose value in
\* force is the sentinel is returned as None, and a sentinel interval is
\* not handed to the time-period validator (validate does not fail on it).
C6_NoSentinel ==
    resolved # NoneVal =>
        /\ ~resolved.raised =>
               \A k \in DOMAIN resolved.data :
                   /\ resolved.data[k] # NONE_STR
                   /\ Chosen(k) = NONE_STR => resolved.data[k] = NoneVal
        /\ Chosen(CONF_INTERVAL) = NONE_STR => ~resolved.raised

\* the options gave lights_filter and the data gave interval as the
\* sentinel, and both came back as None
C6_Witness ==
    /\ Returned
    /\ CONF_LIGHTS_FILTER \in DOMAIN entry.options
    /\ Chosen(CONF_LIGHTS_FILTER) = NONE_STR
    /\ CONF_INTERVAL \in DOMAIN entry.data
    /\ Chosen(CONF_INTERVAL) = NONE_STR
    /\ resolved.data[CONF_LIGHTS_FILTER] = NoneVal
    /\ resolved.data[CONF_INTERVAL] = NoneVal

\* C7: the keys of the returned mapping are exactly the schema keys, the
\* keys of entry.options and the keys of entry.data.
C7_KeySet ==
    Returned =>
        DOMAIN resolved.data
            = SchemaKeys \cup DOMAIN entry.options \cup DOMAIN entry.data

\* a key outside the schema (name) was passed through, and a schema key no
\* layer gave (lights) is there with its default
C7_Witness ==
    /\ Returned
    /\ CONF_NAME \notin SchemaKeys
    /\ CONF_NAME \in DOMAIN entry.options
    /\ CONF_NAME \in DOMAIN resolved.data
    /\ resolved.data[CONF_NAME] = LivingRoom
    /\ CONF_LIGHTS \notin DOMAIN entry.options \cup DOMAIN entry.data
    /\ resolved.data[CONF_LIGHTS] = DEFAULT_LIGHTS

\* the objects a call finds on heap h: the default lists, VALIDATION_TUPLES
\* and the entry's two mappings
Found(h) == SubSeq(h, 1, AddrData)

\* C8: a call of validate leaves entry.options, entry.data and
\* VALIDATION_TUPLES as they were, in their contents and object by object
\* (the default lists included: what the call changes are dicts of its own
\* making), and a call after the first returns (or raises) what the call
\* before it did, although it runs on the heap that call left.
C8_NoHiddenState ==
    [][ncalls' = ncalls + 1 =>
           /\ entry' = entry
           /\ validation_tuples' = validation_tuples
           /\ resolved # NoneVal => resolved' = resolved
           /\ Found(heap') = Found(heap)
           /\ Len(heap') > Len(heap)]_vars

\* validate has been called twice on an entry whose layers overlap: the
\* second call ran on a heap that held the dicts and lists of the first
C8_Witness ==
    /\ ncalls >= 2
    /\ Returned
    /\ DOMAIN entry.options # {} /\ DOMAIN entry.data # {}
    /\ entry.options # entry.data
    /\ \E k \in DOMAIN entry.data :
           k \in DOMAIN entry.options /\ entry.data[k] # entry.options[k]
    /\ Len(heap) > 2 * AddrData
    /\ heap[AddrOptions].items = entry.options
    /\ resolved.data[CONF_LIGHTS] = heap[AddrDefaultLights]

-----------------------------------------------------------------------------
(* The entity's life cycle: the host constructs the switch from a config   *)
(* entry, adds it (restoring its last state), may start after that, turns  *)
(* it on and off, asks it for contexts and removes it.                     *)

MaxContexts == 3
MaxSwitchCalls == 3

Self == [state |-> _state, listeners |-> remove_listeners,
         invoked |-> invoked, error |-> NoneVal, last |-> last_call]

\* the fields of the entity after a method has run
Becomes(self) ==
    /\ _state' = self.state
    /\ remove_listeners' = self.listeners
    /\ invoked' = self.invoked
    /\ error' = self.error
    /\ last_call' = self.last

\* PresenceSimulator(hass, entry, turn_on_off_listener), for an entry whose
\* data names the entity
Init ==
    /\ hashfn \in [Names \ {<<>>} -> HashValues]
    /\ ctx = NoneVal
    /\ verdict = NoneVal
    /\ ncalls = 0
    /\ entry \in {[options |-> EmptyDict,
                   data |-> [k \in {CONF_NAME} |-> StrV(n)]] : n \in Names}
    /\ heap = ValidateEffect(InitialHeap(entry), EntryRefs).heap
    /\ validation_tuples = TuplesView(heap)
    /\ resolved = ValidateEffect(InitialHeap(entry), EntryRefs).returned
    /\ _name = resolved.data[CONF_NAME].s
    /\ _state = NoneVal
    /\ remove_listeners = <<StrType>>
    /\ _context_cnt = PyZero
    /\ is_running \in BOOLEAN
    /\ started_listener = FALSE
    /\ phase = "constructed"
    /\ error = NoneVal
    /\ invoked = <<>>
    /\ last_call = "none"
    /\ nswitch = 0

\* the host adds the entity: async_added_to_hass runs up to its await of
\* async_get_last_state(), where other callbacks of the host may run; had
\* _setup_listeners raised, the method would have ended there
AsyncAddedToHass ==
    /\ phase = "constructed"
    /\ LET first == async_added_to_hass(Self, is_running)
       IN  /\ Becomes(first)
           /\ phase' = IF first.error # NoneVal THEN "added" ELSE "adding"
    /\ started_listener' = ~is_running
    /\ UNCHANGED <<_name, _context_cnt, is_running, ncalls, nswitch>>
    /\ UNCHANGED ctxVars /\ UNCHANGED cfgVars

\* async_get_last_state() returns and async_added_to_hass runs to its end,
\* on the entity and the host as they are by then
AsyncGetLastStateReturns ==
    /\ phase = "adding"
    /\ \E last_state \in {NoneVal, State(STATE_ON), State(STATE_OFF),
                           State("unavailable")} :
           Becomes(async_added_to_hass_resumed(Self, is_running, last_state))
    /\ phase' = "added"
    /\ UNCHANGED <<_name, _context_cnt, is_running, started_listener, ncalls,
                   nswitch>>
    /\ UNCHANGED ctxVars /\ UNCHANGED cfgVars

\* the host starts: EVENT_HOMEASSISTANT_STARTED reaches the listener that
\* async_added_to_hass left, once
HomeAssistantStarted ==
    /\ ~is_running
    /\ is_running' = TRUE
    /\ IF started_listener
       THEN Becomes(_setup_listeners(Self, TRUE))
       ELSE UNCHANGED <<_state, remove_listeners, invoked, error, last_call>>
    /\ started_listener' = FALSE
    /\ UNCHANGED <<_name, _context_cnt, phase, ncalls, nswitch>>
    /\ UNCHANGED ctxVars /\ UNCHANGED cfgVars

\* the host calls async_turn_on
AsyncTurnOn ==
    /\ phase \in {"adding", "added"}
    /\ nswitch < MaxSwitchCalls
    /\ Becomes(async_turn_on(Self, is_running))
    /\ nswitch' = nswitch + 1
    /\ UNCHANGED <<_name, _context_cnt, is_running, started_listener, phase,
                   ncalls>>
    /\ UNCHANGED ctxVars /\ UNCHANGED cfgVars

\* the host calls async_turn_off
AsyncTurnOff ==
    /\ phase \in {"adding", "added"}
    /\ nswitch < MaxSwitchCalls
    /\ Becomes(async_turn_off(Self))
    /\ nswitch' = nswitch + 1
    /\ UNCHANGED <<_name, _context_cnt, is_running, started_listener, phase,
                   ncalls>>
    /\ UNCHANGED ctxVars /\ UNCHANGED cfgVars

\* the host removes the entity: async_will_remove_from_hass
AsyncWillRemoveFromHass ==
    /\ phase = "added"
    /\ Becomes(_remove_listeners(Self))
    /\ phase' = "removed"
    /\ UNCHANGED <<_name, _context_cnt, is_running, started_listener, ncalls,
                   nswitch>>
    /\ UNCHANGED ctxVars /\ UNCHANGED cfgVars

\* self.create_context(which, parent)
CreateContext ==
    /\ phase \in {"constructed", "adding", "added"}
    /\ ncalls < MaxContexts
    /\ \E which \in {WhichTurnOn, WhichAdaptLights},
          parent \in {NoneVal, HostContext} :
           LET made == EntityCreateContext(_name, _context_cnt, which, parent)
           IN  /\ ctx' = [name |-> _name, which |-> which,
                          index |-> _context_cnt, parent |-> parent,
                          context |-> made.context]
               /\ _context_cnt' = made.cnt
    /\ ncalls' = ncalls + 1
    /\ UNCHANGED <<hashfn, verdict, _name, _state, remove_listeners,
                   is_running, started_listener, phase, error, invoked,
                   last_call, nswitch>>
    /\ UNCHANGED cfgVars

Next ==
    \/ AsyncAddedToHass
    \/ AsyncGetLastStateReturns
    \/ HomeAssistantStarted
    \/ AsyncTurnOn
    \/ AsyncTurnOff
    \/ AsyncWillRemoveFromHass
    \/ CreateContext

Spec == Init /\ [][Next]_vars

-----------------------------------------------------------------------------
(* Properties of the entity, checked under Spec *)

\* C9: the context counter starts at 0; the k-th create_context call of the
\* entity encodes index k - 1 and leaves the counter at k; nothing else
\* (adding, the host's start, turning on or off, removal) changes it.
\* ncalls counts the create_context calls made so far.
C9_CounterCountsCalls ==
    /\ _context_cnt = PyNat(ncalls)
    /\ ncalls = 0 => ctx = NoneVal
    /\ ncalls > 0 =>
           /\ ctx.index = PyNat(ncalls - 1)
           /\ ctx.context.id = ContextId(_name, ctx.which, PyNat(ncalls - 1))
           /\ ctx.context.id # ContextId(_name, ctx.which, PyNat(ncalls))

\* the second context was made, with index 1, and the entity has since been
\* turned off or removed (its listener handles were called)
C9_Witness ==
    /\ ncalls = 2
    /\ _context_cnt = PyInt(FALSE, <<2>>)
    /\ ctx.index = PyInt(FALSE, <<1>>)
    /\ invoked # <<>>
    /\ phase = "removed"

\* C12 as stated: in every run of the life cycle (construction, adding with
\* the host running or not and with any restored last state, the host's
\* start, turning on and off, removal) no assertion that the listener-handle
\* list is empty fails: neither the one in _setup_listeners, once past its
\* guard, nor the one of an entity restored as off.
C12_AssertionsNeverFail ==
    error # AssertionError

\* an entity added while the host runs, with no last state, was turned on
\* by async_added_to_hass: _setup_listeners went past its guard with the
\* list still as the constructor left it, and its assertion failed
C12_Witness ==
    /\ phase = "added"
    /\ is_running
    /\ _state = PyTrue
    /\ remove_listeners = <<StrType>>
    /\ invoked = <<>>
    /\ error = AssertionError

\* the number of times handle h occurs in the sequence of handles s
Count(s, h) == Cardinality({k \in 1..Len(s) : s[k] = h})

\* the handles of s, last first: the order in which pop() takes them
Reversed(s) == [k \in 1..Len(s) |-> s[Len(s) + 1 - k]]

IsOn == is_on(Self)

\* this step is a call by the host of async_turn_on or async_turn_off
SwitchCall == nswitch' = nswitch + 1

\* C13: after every call of async_turn_on or async_turn_off, whatever calls
\* came before it, is_on is true exactly when the call was async_turn_on,
\* and no other step of the life cycle changes is_on, but for
\* async_added_to_hass when it resumes with the restored state; a call made
\* in the state it asks for (async_turn_on when on, async_turn_off when
\* off) leaves _state, the handle list and the invoked handles as they were
\* and raises nothing; after async_turn_off on a switch that was on and
\* after async_will_remove_from_hass the handle list is empty and each
\* handle that was in it has been invoked, last first, exactly once.
C13_SwitchAndTeardown ==
    [][/\ SwitchCall => (IsOn' <=> last_call' = "async_turn_on")
       /\ (~SwitchCall /\ phase # "adding") => (IsOn' <=> IsOn)
       /\ (SwitchCall /\ (\/ last_call' = "async_turn_on" /\ IsOn
                          \/ last_call' = "async_turn_off" /\ ~IsOn))
              => /\ UNCHANGED <<_state, remove_listeners, invoked>>
                 /\ error' = NoneVal
       /\ (\/ SwitchCall /\ last_call' = "async_turn_off" /\ IsOn
           \/ phase # "removed" /\ phase' = "removed")
              => /\ remove_listeners' = <<>>
                 /\ invoked' = invoked \o Reversed(remove_listeners)
                 /\ \A k \in 1..Len(remove_listeners) :
                        Count(invoked', remove_listeners[k]) = 1]_vars

\* the host has made three calls, the last an async_turn_on: the switch is
\* on, the handle the constructor left was invoked once when the switch
\* went off, and the list has been empty since
C13_Witness ==
    /\ phase = "added"
    /\ nswitch = 3
    /\ last_call = "async_turn_on"
    /\ _state = PyTrue
    /\ is_running
    /\ remove_listeners = <<>>
    /\ invoked = <<StrType>>
    /\ error = NoneVal

=============================================================================
